---- MODULE Spec2Model ----
(***************************************************************************)
(* sync-fork, lib/utils.js: the sync flow and its variants (add, remove,   *)
(* reset, log-only), the command runner, the update check and the error    *)
(* handler, as one state machine over the Node event loop.                 *)
(*                                                                         *)
(* One action is one event-loop turn: the completion of an external        *)
(* command (or of the registry request) together with every continuation   *)
(* that runs before the next macrotask: the then-callback, the next        *)
(* command's launch, or the catch block with errorHandler.                 *)
(*                                                                         *)
(* A text (stdout, stderr, message) is the set of its lines, a line the    *)
(* tuple of its words.  The empty string is the empty set.                 *)
(*                                                                         *)
(* logged records the calls of log(str) and console.log; what log writes   *)
(* to process.stdout (nothing when process.env.DEBUG is set) and the       *)
(* diagnostics of debug() are console output and are not part of the state.*)
(***************************************************************************)
EXTENDS Integers, Sequences, FiniteSets, TLC

\* At most this many lines in the stderr of a failing command.
MaxErrLines == 1

\* At most this many options set in one call.
MaxOptions == 2

Undefined == "undefined"

(***************************************************************************)
(* String.prototype.match(pattern) with a string pattern: the pattern is   *)
(* compiled to a RegExp and searched for.  Every pattern of the file is    *)
(* free of metacharacters, so the search is a substring search; here at    *)
(* the granularity of words.                                               *)
(***************************************************************************)
occursIn(pattern, line) ==
    \E i \in 1..(Len(line) - Len(pattern) + 1) :
        SubSeq(line, i, i + Len(pattern) - 1) = pattern

match(text, pattern) == \E line \in text : occursIn(pattern, line)

\* ------------------------------------------------------------------------
\* The patterns the code searches for.
P_gitVersion    == <<"git", "version">>
P_ahead         == <<"Your", "branch", "is", "ahead", "of">>
P_uploadPack    == <<"POST", "git-upload-pack">>
P_upToDate      == <<"Already", "up", "to", "date">>
P_updating      == <<"Updating">>
P_receivePack   == <<"POST", "git-receive-pack">>
P_haveUnmerged  == <<"have", "unmerged">>
P_noRemote      == <<"does", "not", "appear", "to", "be", "a", "git", "repository">>
P_noMerge       == <<"not", "something", "we", "can", "merge">>
P_notRepo       == <<"fatal:", "not", "a", "git", "repository">>
P_check         == <<"did", "not", "match", "any">>
P_conflict      == <<"CONFLICT">>
P_needResolve   == <<"you", "need", "to", "resolve", "your", "current", "index">>
P_overwritten   == <<"would", "be", "overwritten">>
P_pathspec      == <<"pathspec">>
P_alreadyExists == <<"already", "exists">>
P_ambiguous     == <<"fatal:", "ambiguous", "argument">>

\* ------------------------------------------------------------------------
\* Lines the version-control tool prints.
L_version       == <<"git", "version", "2.40.0">>
L_ahead         == <<"Your", "branch", "is", "ahead", "of", "'origin/master'", "by", "1", "commit">>
L_uploadPack    == <<"POST", "git-upload-pack", "(165", "bytes)">>
L_upToDate      == <<"Already", "up", "to", "date">>
L_updating      == <<"Updating", "abc123..def456">>
L_receivePack   == <<"POST", "git-receive-pack", "(420", "bytes)">>
L_unmergedPaths == <<"You", "have", "unmerged", "paths">>
L_untracked     == <<"notes", "we", "have", "unmerged", "yet.txt">>
L_cleanTree     == <<"nothing", "to", "commit,", "working", "tree", "clean">>
L_conflict      == <<"CONFLICT", "(content):", "Merge", "conflict", "in", "README.md">>
L_noRemote      == <<"fatal:", "'upstream'", "does", "not", "appear", "to", "be", "a", "git", "repository">>
L_noMerge       == <<"merge:", "upstream/master", "-", "not", "something", "we", "can", "merge">>
L_notRepo       == <<"fatal:", "not", "a", "git", "repository">>
L_pathspec      == <<"error:", "pathspec", "'master'", "did", "not", "match", "any", "file(s)", "known", "to", "git">>
L_needResolve   == <<"error:", "you", "need", "to", "resolve", "your", "current", "index", "first">>
L_overwritten   == <<"error:", "Your", "local", "changes", "would", "be", "overwritten", "by", "merge">>
L_alreadyExists == <<"error:", "remote", "upstream", "already", "exists">>
L_ambiguous     == <<"fatal:", "ambiguous", "argument", "'upstream/master'">>
L_commandFailed == <<"Command", "failed:">>
L_spawn         == <<"spawn", "/bin/sh", "ENOENT">>

\* ------------------------------------------------------------------------
\* The caller's options (opts) and the commands built from them.
RemoteNames == {"upstream", "origin"}

\* The remote and the branch are both named or both left to their defaults;
\* at most MaxOptions of add, remove, reset, logOnly and log are set.
Opts ==
    {o \in [add : {Undefined, "https://example.org/up.git"},
            remove : {Undefined, "origin"},
            reset : BOOLEAN,
            logOnly : BOOLEAN,
            log : BOOLEAN,
            upstream : {Undefined, "origin"},
            branch : {Undefined, "main"}] :
        /\ (o.upstream = Undefined) = (o.branch = Undefined)
        /\ Cardinality({f \in {"reset", "logOnly", "log"} : o[f]}
                \cup {f \in {"add", "remove"} : o[f] # Undefined}) <= MaxOptions}

\* a || b on option values
orElse(a, b) == IF a = Undefined THEN b ELSE a

upstreamOf(o) == orElse(o.upstream, "upstream")
branchOf(o)   == orElse(o.branch, "master")

verifyCommand       == <<"git", "--version">>
checkoutCommand(o)  == <<"git", "checkout", branchOf(o)>>
fetchCommand(o)     == <<"git", "fetch", upstreamOf(o), "-v">>
mergeCommand(o)     == <<"git", "merge", upstreamOf(o), "/", branchOf(o), branchOf(o), "-v">>
pushCommand         == <<"git", "push", "-v">>
logCommand          == <<"git", "log", "--oneline", "-n", "10", "--no-decorate">>

verifyMergeCommand    == <<"git", "status">>
abortMergeCommand     == <<"git", "merge", "--abort">>
resetFetchCommand(o)  == <<"git", "fetch", upstreamOf(o)>>
resetCommand(o)       == <<"git", "reset", "--hard", upstreamOf(o), "/", branchOf(o)>>
forcePushCommand      == <<"git", "push", "-f">>

addCommand(o)       == <<"git", "remote", "add", upstreamOf(o), o.add>>
removeTarget(o)     == orElse(o.remove, "upstream")
removeCommand(o)    == <<"git", "remote", "remove", removeTarget(o)>>
listCommand         == <<"git", "remote", "-v">>

statusShortCommand  == <<"git", "status", "-s">>
branchCommand       == <<"git", "branch">>

\* ------------------------------------------------------------------------
\* exec: what the shell can answer to a command.  A result is a record
\* [state, stdout, stderr, message]; message is only set on failure.
Pending == [state |-> "pending", stdout |-> {}, stderr |-> {}, message |-> {}]

Ok(out, err) == [state |-> "ok", stdout |-> out, stderr |-> err, message |-> {}]

\* A nonzero exit: exec's error carries stdout and stderr, and its message is
\* "Command failed: <command>\n<stderr>".
Exit(out, err) ==
    [state |-> "failed", stdout |-> out, stderr |-> err,
     message |-> {L_commandFailed} \cup err]

\* The shell could not be started: nothing captured.
LaunchError == [state |-> "failed", stdout |-> {}, stderr |-> {}, message |-> {L_spawn}]

ErrLines ==
    {L_noRemote, L_noMerge, L_notRepo, L_pathspec, L_needResolve, L_ahead,
     L_overwritten, L_alreadyExists, L_ambiguous}

ErrTexts == {t \in SUBSET ErrLines : Cardinality(t) <= MaxErrLines}

Failures ==
    {Exit(out, err) : out \in SUBSET {L_conflict, L_ahead}, err \in ErrTexts}
        \cup {LaunchError}

listing(names) == {<<n, "https://example.org/r.git", "(fetch)">> : n \in names}

Successes(command) ==
    IF command = verifyCommand THEN {Ok(out, {}) : out \in SUBSET {L_version}}
    ELSE IF command[2] = "checkout" THEN {Ok(out, {}) : out \in SUBSET {L_ahead}}
    ELSE IF command[2] = "fetch" THEN {Ok({}, err) : err \in SUBSET {L_uploadPack}}
    ELSE IF command = abortMergeCommand THEN {Ok({}, {})}
    ELSE IF command[2] = "merge" THEN {Ok(out, {}) : out \in SUBSET {L_upToDate, L_updating}}
    ELSE IF command[2] = "push" THEN {Ok({}, err) : err \in SUBSET {L_receivePack}}
    ELSE IF command = verifyMergeCommand
        THEN {Ok({l}, {}) : l \in {L_cleanTree, L_unmergedPaths, L_untracked}}
    ELSE IF command = listCommand THEN {Ok(listing(ns), {}) : ns \in SUBSET RemoteNames}
    ELSE IF command = statusShortCommand THEN {Ok(out, {}) : out \in SUBSET {L_conflict}}
    ELSE {Ok({}, {})}

exec(command) == Successes(command) \cup Failures

\* C5's mutant: executeCommand hands a failure's streams back as a result
rejects_never(res) == FALSE

\* executeCommand(command): await exec(command) throws on a failure, and the
\* promise executeCommand returns rejects
rejects(res) == res.state = "failed"

\* ------------------------------------------------------------------------
\* The state.
VARIABLES
    opts,       \* the options syncFork was called with
    pc,         \* where the flow is suspended, or how it ended
    issued,     \* the commands handed to exec, in order
    results,    \* results[i]: what issued[i] answered, Pending while it runs
    logged,     \* the messages handed to log and console.log, in order
    handled,    \* the values errorHandler was called with, in order
    unhandled   \* the commands whose rejection no handler took

vars == <<opts, pc, issued, results, logged, handled, unhandled>>

inFlight == {i \in 1..Len(issued) : results[i].state = "pending"}

when(c, s) == IF c THEN s ELSE <<>>

\* ------------------------------------------------------------------------
\* The values a catch block can receive.
ExecError(res) ==
    [kind |-> "exec", message |-> res.message, stdout |-> res.stdout, stderr |-> res.stderr]

\* new Error(...) thrown by fs or JSON.parse: a message, no stdout, no stderr
ThrownError == [kind |-> "Error", message |-> {<<"Unexpected", "token">>}, stdout |-> {}, stderr |-> {}]

\* getVersion's reject('Error: ' + err.message): a string
StringRejection == [kind |-> "string", message |-> {}, stdout |-> {}, stderr |-> {}]

fieldsOf(error) ==
    IF error.kind = "exec" THEN {"message", "stdout", "stderr"}
    ELSE IF error.kind = "Error" THEN {"message"}
    ELSE {}

\* ------------------------------------------------------------------------
\* errorHandler

\* C4's mutant: CONFLICT is looked for in stderr
problems_conflictInStderr(error) ==
    [remote        |-> match(error.message, P_noRemote),
     merge         |-> match(error.message, P_noMerge),
     repo          |-> match(error.message, P_notRepo),
     check         |-> match(error.message, P_check),
     conflict      |-> match(error.stderr, P_conflict),
     hasConflict   |-> match(error.stderr, P_needResolve),
     ahead         |-> match(error.stderr, P_ahead),
     file          |-> match(error.stderr, P_overwritten),
     pathspec      |-> match(error.stderr, P_pathspec),
     alreadyAdded  |-> match(error.stderr, P_alreadyExists),
     pathspecReset |-> match(error.stderr, P_ambiguous)]

problems(error) ==
    [remote        |-> match(error.message, P_noRemote),
     merge         |-> match(error.message, P_noMerge),
     repo          |-> match(error.message, P_notRepo),
     check         |-> match(error.message, P_check),
     conflict      |-> match(error.stdout, P_conflict),
     hasConflict   |-> match(error.stderr, P_needResolve),
     ahead         |-> match(error.stderr, P_ahead),
     file          |-> match(error.stderr, P_overwritten),
     pathspec      |-> match(error.stderr, P_pathspec),
     alreadyAdded  |-> match(error.stderr, P_alreadyExists),
     pathspecReset |-> match(error.stderr, P_ambiguous)]

\* showConflictingFiles(): starts git status -s; nobody awaits it.
showConflictingFiles == <<statusShortCommand>>

\* [throws, logs, commands]: whether the call throws (a match on an undefined
\* field is a TypeError), the messages it logs and the commands it starts.
errorHandler(error) ==
    IF fieldsOf(error) # {"message", "stdout", "stderr"}
    THEN [throws |-> TRUE, logs |-> <<>>, commands |-> <<>>]
    ELSE
        LET p == problems(error)
            alert == error.message # {} \/ error.stderr # {}
        IN  [throws |-> FALSE,
             logs |-> when(alert,
                 when(p.remote, <<"noRemote">>)
                 \o when(p.pathspecReset, <<"pathspecReset">>)
                 \o when(p.merge, <<"noMerge">>)
                 \o when(p.repo, <<"notRepo">>)
                 \o when(p.check, <<"check">>)
                 \o when(p.ahead, <<"ahead">>)
                 \o when(p.conflict \/ p.hasConflict, <<"hasConflict">>)
                 \o when(p.file, <<"file">>)
                 \o when(p.pathspec, <<"pathspec">>)
                 \o when(p.alreadyAdded, <<"alreadyAdded">>)),
             commands |-> when(alert,
                 when(p.conflict \/ p.hasConflict, showConflictingFiles)
                 \o when(p.file, showConflictingFiles)
                 \o when(p.pathspec, <<branchCommand>>)
                 \o when(p.alreadyAdded, <<listCommand>>))]

\* ------------------------------------------------------------------------
\* The then-callbacks of the sync flow: [logs, stop].  stop: Stop() was called.
\* C14's mutant: an unexpected banner ends the run
verifyThen_blocking(stdout) ==
    IF match(stdout, P_gitVersion)
    THEN [logs |-> <<"started">>, stop |-> FALSE]
    ELSE [logs |-> <<"gitNotInstalled">>, stop |-> TRUE]

verifyThen(stdout) ==
    [logs |-> when(~match(stdout, P_gitVersion), <<"gitNotInstalled">>) \o <<"started">>,
     stop |-> FALSE]

\* C1's mutant: the Stop() call is forgotten
checkoutThen_noStop(stdout) ==
    [logs |-> when(match(stdout, P_ahead), <<"ahead">>), stop |-> FALSE]

checkoutThen(stdout) ==
    IF match(stdout, P_ahead)
    THEN [logs |-> <<"ahead">>, stop |-> TRUE]
    ELSE [logs |-> <<>>, stop |-> FALSE]

fetchThen(stderr) ==
    [logs |-> when(match(stderr, P_uploadPack), <<"fetched">>), stop |-> FALSE]

\* C2's mutant: "Updating" is tested first and the stop is its else-branch
mergeThen_updatingFirst(stdout) ==
    IF match(stdout, P_updating)
    THEN [logs |-> <<"merged">>, stop |-> FALSE]
    ELSE IF match(stdout, P_upToDate)
    THEN [logs |-> <<"alreadyUpdated">>, stop |-> TRUE]
    ELSE [logs |-> <<>>, stop |-> FALSE]

\* C19's mutant: without "Updating" the run ends after the merge
mergeThen_updatingGates(stdout) ==
    IF match(stdout, P_upToDate)
    THEN [logs |-> <<"alreadyUpdated">>, stop |-> TRUE]
    ELSE IF match(stdout, P_updating)
    THEN [logs |-> <<"merged">>, stop |-> FALSE]
    ELSE [logs |-> <<>>, stop |-> TRUE]

\* process.exit() does not return: line 56 is not reached after Stop().
mergeThen(stdout) ==
    IF match(stdout, P_upToDate)
    THEN [logs |-> <<"alreadyUpdated">>, stop |-> TRUE]
    ELSE [logs |-> when(match(stdout, P_updating), <<"merged">>), stop |-> FALSE]

pushThen(stderr) ==
    [logs |-> when(match(stderr, P_receivePack), <<"pushed">>), stop |-> FALSE]

\* C3's mutant: the log command runs whether or not opts.log is set
afterPush_always(o) == <<logCommand>>

\* C18's mutant: the log command is never run after a sync
afterPush_never(o) == <<>>

\* after the push: the log command, if opts.log
afterPush(o) == when(o.log, <<logCommand>>)

\* Stop(): process.exit() ends the process at once.
Stop == "exited"

\* process.exit(code): without a code the process ends with process.exitCode,
\* which nothing in the program sets, that is with the success code.
processExit(code) == IF code = Undefined THEN 0 ELSE code

\* The exit code of a process that ended by Stop() or because the flow ran to
\* its end and the event loop emptied; Undefined in every other state.
exitCode ==
    IF pc = Stop THEN processExit(Undefined)
    ELSE IF pc = "completed" THEN 0
    ELSE Undefined

\* ------------------------------------------------------------------------
\* The then-callbacks of the variant flows.

\* C6's mutant: the merge is aborted whatever git status printed
resetStatusThen_always(stdout) == TRUE

\* resetFork, after git status: whether the merge is aborted first
resetStatusThen(stdout) == match(stdout, P_haveUnmerged)

\* C7's mutant: success is reported without looking at the listing
addThen_unverified(stdout, o) == <<"remote added">>

addThen(stdout, o) == when(match(stdout, <<upstreamOf(o)>>), <<"remote added">>)

removeThen(stdout, o) == when(~match(stdout, <<removeTarget(o)>>), <<"remote removed">>)

\* ------------------------------------------------------------------------
\* checkForUpdates, in the three stretches its one await cuts it into.
CacheStates == {"missing", "unreadable", "corrupted", "fresh", "stale"}

\* up to the await: [throws, logs, awaits]
checkForUpdates(cache, debug) ==
    [throws |-> cache = "unreadable",
     logs   |-> when(cache = "corrupted", <<"Cache Corrupted. Overwriting cache.">>),
     awaits |-> debug \/ cache \in {"missing", "corrupted", "stale"}]

\* getVersion settles: resolved with the registry's version, or rejected with
\* a string on a request error; or it never settles, when JSON.parse throws
\* inside the async 'end' listener: the process ends with the flow suspended.
getVersion == {"resolved", "rejected", "unsettled"}

PackageStates == {"unreadable", "same", "differs"}

\* after the await: whether reading package.json throws (the alert it may
\* print goes to the console only)
compareVersions(package) == package = "unreadable"

\* the cache write: whether it throws
writeCache(isGlobal, writable) == isGlobal /\ ~writable

\* ------------------------------------------------------------------------
\* One turn of the event loop.
settle(res) == [results EXCEPT ![Len(results)] = res]

Effects(rs, logs, commands, next) ==
    /\ issued' = issued \o commands
    /\ results' = rs \o [k \in 1..Len(commands) |-> Pending]
    /\ logged' = logged \o logs
    /\ pc' = next

\* no catch block runs in this turn
Advance(rs, logs, commands, next) ==
    /\ Effects(rs, logs, commands, next)
    /\ UNCHANGED handled

\* the awaited command succeeded: executeCommand returns, the callback has run
Resolved(res, logs, commands, next) == Advance(settle(res), logs, commands, next)

\* the catch block: errorHandler(err)
Caught(rs, logs, error) ==
    LET h == errorHandler(error) IN
    /\ Effects(rs, logs \o h.logs, h.commands, IF h.throws THEN "rejected" ELSE "failed")
    /\ handled' = Append(handled, error)

\* C15's mutant: a failed command is tried again
Rejected_retry(res) ==
    Advance(settle(res), <<>>, <<issued[Len(issued)]>>, pc)

\* the awaited command failed: executeCommand rejects
Rejected(res) == Caught(settle(res), <<>>, ExecError(res))

awaited == issued[Len(issued)]

\* ------------------------------------------------------------------------
\* C17's mutant: the logOnly early return is missing
syncFork_noLogOnly ==
    /\ pc = "init"
    /\ IF opts.add # Undefined
         THEN Advance(results, <<>>, <<addCommand(opts)>>, "add")
       ELSE IF opts.remove # Undefined
         THEN Advance(results, <<>>, <<removeCommand(opts)>>, "remove")
       ELSE IF opts.reset
         THEN Advance(results, <<>>, <<verifyMergeCommand>>, "status")
       ELSE \E cache \in CacheStates, debug \in BOOLEAN,
               isGlobal \in BOOLEAN, writable \in BOOLEAN :
            LET c == checkForUpdates(cache, debug) IN
            IF c.throws THEN Caught(results, <<>>, ThrownError)
            ELSE IF c.awaits THEN Advance(results, c.logs, <<>>, "getVersion")
            ELSE IF writeCache(isGlobal, writable) THEN Caught(results, c.logs, ThrownError)
            ELSE Advance(results, c.logs, <<verifyCommand>>, "verify")
    /\ UNCHANGED <<opts, unhandled>>

\* syncFork(opts), up to its first await.
syncFork ==
    /\ pc = "init"
    /\ IF opts.add # Undefined
         THEN Advance(results, <<>>, <<addCommand(opts)>>, "add")
       ELSE IF opts.remove # Undefined
         THEN Advance(results, <<>>, <<removeCommand(opts)>>, "remove")
       ELSE IF opts.reset
         THEN Advance(results, <<>>, <<verifyMergeCommand>>, "status")
       ELSE IF opts.logOnly
         THEN Advance(results, <<>>, <<logCommand>>, "logOnly")
       ELSE \E cache \in CacheStates, debug \in BOOLEAN,
               isGlobal \in BOOLEAN, writable \in BOOLEAN :
            LET c == checkForUpdates(cache, debug) IN
            IF c.throws THEN Caught(results, <<>>, ThrownError)
            ELSE IF c.awaits THEN Advance(results, c.logs, <<>>, "getVersion")
            ELSE IF writeCache(isGlobal, writable) THEN Caught(results, c.logs, ThrownError)
            ELSE Advance(results, c.logs, <<verifyCommand>>, "verify")
    /\ UNCHANGED <<opts, unhandled>>

\* C20's mutant: the update check has a try/catch of its own, and the sync
\* goes on after its failure
getVersionSettles_failureIgnored ==
    /\ pc = "getVersion"
    /\ \E outcome \in getVersion, package \in PackageStates,
          isGlobal \in BOOLEAN, writable \in BOOLEAN :
        IF outcome = "unsettled"
        THEN pc' = "crashed" /\ UNCHANGED <<issued, results, logged, handled>>
        ELSE IF outcome = "rejected"
            THEN /\ Effects(results, <<>>, <<verifyCommand>>, "verify")
                 /\ handled' = Append(handled, StringRejection)
        ELSE IF compareVersions(package) \/ writeCache(isGlobal, writable)
            THEN /\ Effects(results, <<>>, <<verifyCommand>>, "verify")
                 /\ handled' = Append(handled, ThrownError)
        ELSE Advance(results, <<>>, <<verifyCommand>>, "verify")
    /\ UNCHANGED <<opts, unhandled>>

\* the registry request settles; checkForUpdates runs to its end
getVersionSettles ==
    /\ pc = "getVersion"
    /\ \E outcome \in getVersion, package \in PackageStates,
          isGlobal \in BOOLEAN, writable \in BOOLEAN :
        IF outcome = "unsettled"
        THEN pc' = "crashed" /\ UNCHANGED <<issued, results, logged, handled>>
        ELSE IF outcome = "rejected" THEN Caught(results, <<>>, StringRejection)
        ELSE IF compareVersions(package) \/ writeCache(isGlobal, writable)
            THEN Caught(results, <<>>, ThrownError)
        ELSE Advance(results, <<>>, <<verifyCommand>>, "verify")
    /\ UNCHANGED <<opts, unhandled>>

\* ------------------------------------------------------------------------
\* The sync flow: each action is the awaited command settling.
Proceed(res, t, commands, next) ==
    IF t.stop
    THEN Resolved(res, t.logs, <<>>, Stop)
    ELSE Resolved(res, t.logs, commands, next)

verifySettles ==
    /\ pc = "verify"
    /\ \E res \in exec(awaited) :
        IF rejects(res) THEN Rejected(res)
        ELSE Proceed(res, verifyThen(res.stdout), <<checkoutCommand(opts)>>, "checkout")
    /\ UNCHANGED <<opts, unhandled>>

checkoutSettles ==
    /\ pc = "checkout"
    /\ \E res \in exec(awaited) :
        IF rejects(res) THEN Rejected(res)
        ELSE Proceed(res, checkoutThen(res.stdout), <<fetchCommand(opts)>>, "fetch")
    /\ UNCHANGED <<opts, unhandled>>

fetchSettles ==
    /\ pc = "fetch"
    /\ \E res \in exec(awaited) :
        IF rejects(res) THEN Rejected(res)
        ELSE Proceed(res, fetchThen(res.stderr), <<mergeCommand(opts)>>, "merge")
    /\ UNCHANGED <<opts, unhandled>>

mergeSettles ==
    /\ pc = "merge"
    /\ \E res \in exec(awaited) :
        IF rejects(res) THEN Rejected(res)
        ELSE Proceed(res, mergeThen(res.stdout), <<pushCommand>>, "push")
    /\ UNCHANGED <<opts, unhandled>>

\* after the push: log(solutions.synced), then the log command if opts.log
pushSettles ==
    /\ pc = "push"
    /\ \E res \in exec(awaited) :
        IF rejects(res) THEN Rejected(res)
        ELSE LET t == pushThen(res.stderr) IN
             Resolved(res, t.logs \o <<"synced">>, afterPush(opts),
                      IF afterPush(opts) # <<>> THEN "log" ELSE "completed")
    /\ UNCHANGED <<opts, unhandled>>

logSettles ==
    /\ pc = "log"
    /\ \E res \in exec(awaited) :
        IF rejects(res) THEN Rejected(res)
        ELSE Resolved(res, <<"commits">>, <<>>, "completed")
    /\ UNCHANGED <<opts, unhandled>>

\* logOnly()
logOnlySettles ==
    /\ pc = "logOnly"
    /\ \E res \in exec(awaited) :
        IF rejects(res) THEN Rejected(res)
        ELSE Resolved(res, <<"commits">>, <<>>, "completed")
    /\ UNCHANGED <<opts, unhandled>>

\* ------------------------------------------------------------------------
\* resetFork
\* C16's mutant: the abort is started and not awaited
statusSettles_abortNotAwaited ==
    /\ pc = "status"
    /\ \E res \in exec(awaited) :
        IF rejects(res) THEN Rejected(res)
        ELSE Resolved(res, <<>>,
                      when(resetStatusThen(res.stdout), <<abortMergeCommand>>)
                          \o <<checkoutCommand(opts)>>,
                      "reset.checkout")
    /\ UNCHANGED <<opts, unhandled>>

statusSettles ==
    /\ pc = "status"
    /\ \E res \in exec(awaited) :
        IF rejects(res) THEN Rejected(res)
        ELSE IF resetStatusThen(res.stdout)
            THEN Resolved(res, <<>>, <<abortMergeCommand>>, "abort")
        ELSE Resolved(res, <<>>, <<checkoutCommand(opts)>>, "reset.checkout")
    /\ UNCHANGED <<opts, unhandled>>

\* the abort is awaited inside the status callback; its failure rejects the
\* awaited chain and lands in the same catch block
abortSettles ==
    /\ pc = "abort"
    /\ \E res \in exec(awaited) :
        IF rejects(res) THEN Rejected(res)
        ELSE Resolved(res, <<>>, <<checkoutCommand(opts)>>, "reset.checkout")
    /\ UNCHANGED <<opts, unhandled>>

resetCheckoutSettles ==
    /\ pc = "reset.checkout"
    /\ \E res \in exec(awaited) :
        IF rejects(res) THEN Rejected(res)
        ELSE Resolved(res, <<>>, <<resetFetchCommand(opts)>>, "reset.fetch")
    /\ UNCHANGED <<opts, unhandled>>

resetFetchSettles ==
    /\ pc = "reset.fetch"
    /\ \E res \in exec(awaited) :
        IF rejects(res) THEN Rejected(res)
        ELSE Resolved(res, <<"fetched">>, <<resetCommand(opts)>>, "reset.reset")
    /\ UNCHANGED <<opts, unhandled>>

resetSettles ==
    /\ pc = "reset.reset"
    /\ \E res \in exec(awaited) :
        IF rejects(res) THEN Rejected(res)
        ELSE Resolved(res, <<"reset">>, <<forcePushCommand>>, "reset.push")
    /\ UNCHANGED <<opts, unhandled>>

forcePushSettles ==
    /\ pc = "reset.push"
    /\ \E res \in exec(awaited) :
        IF rejects(res) THEN Rejected(res)
        ELSE Resolved(res, <<"done">>, <<>>, "completed")
    /\ UNCHANGED <<opts, unhandled>>

\* ------------------------------------------------------------------------
\* addUpstream
addSettles ==
    /\ pc = "add"
    /\ \E res \in exec(awaited) :
        IF rejects(res) THEN Rejected(res)
        ELSE Resolved(res, <<>>, <<listCommand>>, "add.list")
    /\ UNCHANGED <<opts, unhandled>>

addListSettles ==
    /\ pc = "add.list"
    /\ \E res \in exec(awaited) :
        IF rejects(res) THEN Rejected(res)
        ELSE Resolved(res, addThen(res.stdout, opts), <<>>, "completed")
    /\ UNCHANGED <<opts, unhandled>>

\* removeUpstream
removeSettles ==
    /\ pc = "remove"
    /\ \E res \in exec(awaited) :
        IF rejects(res) THEN Rejected(res)
        ELSE Resolved(res, <<>>, <<listCommand>>, "remove.list")
    /\ UNCHANGED <<opts, unhandled>>

removeListSettles ==
    /\ pc = "remove.list"
    /\ \E res \in exec(awaited) :
        IF rejects(res) THEN Rejected(res)
        ELSE Resolved(res, removeThen(res.stdout, opts), <<>>, "completed")
    /\ UNCHANGED <<opts, unhandled>>

\* ------------------------------------------------------------------------
\* The commands errorHandler started settle, in any order.  Their promises
\* have a then-callback and no catch.
secondaryThen(command) ==
    IF command = statusShortCommand THEN <<"conflicting files">> ELSE <<"output">>

secondaryResolves ==
    /\ pc = "failed"
    /\ \E i \in inFlight : \E res \in Successes(issued[i]) :
        /\ results' = [results EXCEPT ![i] = res]
        /\ logged' = logged \o secondaryThen(issued[i])
    /\ UNCHANGED <<opts, pc, issued, handled, unhandled>>

\* C13's mutant: the secondary commands' promises have a catch that hands the
\* failure to errorHandler
secondaryRejects_caught ==
    /\ pc = "failed"
    /\ \E i \in inFlight : \E res \in {Exit({}, {L_notRepo})} :
        Caught([results EXCEPT ![i] = res], <<>>, ExecError(res))
    /\ UNCHANGED <<opts, unhandled>>

\* An unhandled rejection ends the process or only warns, by the runtime's
\* --unhandled-rejections mode.  Nothing reads the failure: one stands for all.
secondaryRejects ==
    /\ pc = "failed"
    /\ \E i \in inFlight : \E res \in {Exit({}, {L_notRepo})} :
        /\ results' = [results EXCEPT ![i] = res]
        /\ unhandled' = unhandled \cup {i}
    /\ pc' \in {"failed", "crashed"}
    /\ UNCHANGED <<opts, issued, logged, handled>>

\* ------------------------------------------------------------------------
Init ==
    /\ opts \in Opts
    /\ pc = "init"
    /\ issued = <<>>
    /\ results = <<>>
    /\ logged = <<>>
    /\ handled = <<>>
    /\ unhandled = {}

Next ==
    \/ syncFork
    \/ getVersionSettles
    \/ verifySettles
    \/ checkoutSettles
    \/ fetchSettles
    \/ mergeSettles
    \/ pushSettles
    \/ logSettles
    \/ logOnlySettles
    \/ statusSettles
    \/ abortSettles
    \/ resetCheckoutSettles
    \/ resetFetchSettles
    \/ resetSettles
    \/ forcePushSettles
    \/ addSettles
    \/ addListSettles
    \/ removeSettles
    \/ removeListSettles
    \/ secondaryResolves
    \/ secondaryRejects

Spec == Init /\ [][Next]_vars

\* ------------------------------------------------------------------------
\* Which flow syncFork(opts) takes.
flow ==
    IF opts.add # Undefined THEN "add"
    ELSE IF opts.remove # Undefined THEN "remove"
    ELSE IF opts.reset THEN "reset"
    ELSE IF opts.logOnly THEN "logOnly"
    ELSE "sync"

range(seq) == {seq[i] : i \in 1..Len(seq)}

settled(i, command, state) == issued[i] = command /\ results[i].state = state

SyncCommands ==
    {verifyCommand, checkoutCommand(opts), fetchCommand(opts), mergeCommand(opts),
     pushCommand, logCommand}

\* C1: in the sync flow, once the checkout has succeeded with "Your branch is
\* ahead of" in its stdout, the process has exited and no fetch, merge, push
\* or log command is issued after the checkout.
C1_StopsAtCheckout ==
    flow = "sync" =>
        \A i \in 1..Len(issued) :
            (settled(i, checkoutCommand(opts), "ok") /\ match(results[i].stdout, P_ahead))
            => /\ pc = "exited"
               /\ \A j \in (i + 1)..Len(issued) :
                    issued[j] \notin {fetchCommand(opts), mergeCommand(opts),
                                      pushCommand, logCommand}

C1_Witness ==
    /\ flow = "sync"
    /\ Len(issued) = 2
    /\ settled(2, checkoutCommand(opts), "ok")
    /\ match(results[2].stdout, P_ahead)
    /\ "ahead" \in range(logged)

\* C2: in the sync flow, once the merge has succeeded with "Already up to
\* date" in its stdout, with or without "Updating" beside it, the process has
\* exited and neither the push nor the log command is ever issued.
C2_StopsAtMerge ==
    flow = "sync" =>
        \A i \in 1..Len(issued) :
            (settled(i, mergeCommand(opts), "ok") /\ match(results[i].stdout, P_upToDate))
            => /\ pc = "exited"
               /\ pushCommand \notin range(issued)
               /\ logCommand \notin range(issued)

C2_Witness ==
    /\ flow = "sync"
    /\ Len(issued) = 4
    /\ settled(4, mergeCommand(opts), "ok")
    /\ match(results[4].stdout, P_upToDate)
    /\ match(results[4].stdout, P_updating)
    /\ pc = "exited"

\* C3: in the sync flow, when every command issued has succeeded and the merge
\* printed "Updating" and not "Already up to date" (the checkout not having
\* printed "Your branch is ahead of"), the flow is Completed and the commands
\* issued are exactly version check, checkout, fetch, merge, push, followed by
\* the log command exactly when opts.log is set.
C3_FullSync ==
    (/\ flow = "sync"
     /\ \A i \in 1..Len(issued) : results[i].state = "ok"
     /\ \E i \in 1..Len(issued) :
            /\ issued[i] = mergeCommand(opts)
            /\ match(results[i].stdout, P_updating)
            /\ ~match(results[i].stdout, P_upToDate)
     /\ \A i \in 1..Len(issued) :
            issued[i] = checkoutCommand(opts) => ~match(results[i].stdout, P_ahead))
    => /\ pc = "completed"
       /\ issued = <<verifyCommand, checkoutCommand(opts), fetchCommand(opts),
                     mergeCommand(opts), pushCommand>>
                   \o (IF opts.log THEN <<logCommand>> ELSE <<>>)

C3_Witness ==
    /\ flow = "sync"
    /\ opts.log
    /\ pc = "completed"
    /\ Len(issued) = 6
    /\ \A i \in 1..6 : results[i].state = "ok"
    /\ match(results[4].stdout, P_updating)

\* C4: in the sync flow, once the merge has failed with "CONFLICT" in its
\* stdout, the failure has gone to errorHandler, the merge-conflict remedy has
\* been logged, git status -s has been issued, and no push is ever issued.
C4_MergeConflict ==
    flow = "sync" =>
        \A i \in 1..Len(issued) :
            (settled(i, mergeCommand(opts), "failed") /\ match(results[i].stdout, P_conflict))
            => /\ pc \in {"failed", "crashed"}
               /\ handled = <<ExecError(results[i])>>
               /\ "hasConflict" \in range(logged)
               /\ statusShortCommand \in range(issued)
               /\ pushCommand \notin range(issued)

C4_Witness ==
    /\ flow = "sync"
    /\ Len(issued) >= 5
    /\ settled(4, mergeCommand(opts), "failed")
    /\ match(results[4].stdout, P_conflict)
    /\ issued[5] = statusShortCommand
    /\ results[5].state = "ok"

\* C5: in the sync flow, once a command of the sequence (version check,
\* checkout, fetch, merge, push, log) has failed, no command of the sequence
\* is issued after it, and errorHandler has been called exactly once, with
\* that failure.
C5_FailureShortCircuits ==
    flow = "sync" =>
        \A i \in 1..Len(issued) :
            (issued[i] \in SyncCommands /\ results[i].state = "failed")
            => /\ \A j \in (i + 1)..Len(issued) : issued[j] \notin SyncCommands
               /\ handled = <<ExecError(results[i])>>

C5_Witness ==
    /\ flow = "sync"
    /\ Len(issued) >= 3
    /\ settled(3, fetchCommand(opts), "failed")
    /\ Len(handled) = 1
    /\ mergeCommand(opts) \notin range(issued)

\* C6 as stated: in the reset flow, the abort-merge command has been issued
\* if and only if git status succeeded with "have unmerged paths" in its
\* stdout.
C6_AbortIffUnmergedPaths ==
    flow = "reset" =>
        (abortMergeCommand \in range(issued)
         <=> \E i \in 1..Len(issued) :
                /\ settled(i, verifyMergeCommand, "ok")
                /\ match(results[i].stdout, <<"have", "unmerged", "paths">>))

\* C6, amended: in the reset flow, the abort-merge command has been issued if
\* and only if git status succeeded with "have unmerged" in its stdout.
C6_AbortIffHaveUnmerged ==
    flow = "reset" =>
        (abortMergeCommand \in range(issued)
         <=> \E i \in 1..Len(issued) :
                /\ settled(i, verifyMergeCommand, "ok")
                /\ match(results[i].stdout, P_haveUnmerged))

C6_Witness ==
    /\ flow = "reset"
    /\ Len(issued) >= 2
    /\ settled(1, verifyMergeCommand, "ok")
    /\ L_unmergedPaths \in results[1].stdout
    /\ issued[2] = abortMergeCommand

C8_OneCommandAtATime == Cardinality(inFlight) <= 1

\* C9 as stated: no command's failure is left as an unhandled rejection.
C9_NoUnhandledRejection == unhandled = {}

\* C10 as stated: errorHandler returns, without throwing, for every value a
\* catch block hands it.
C10_ErrorHandlerTotal ==
    /\ pc # "rejected"
    /\ \A i \in 1..Len(handled) : ~errorHandler(handled[i]).throws

\* C11 as stated: the exit code is 0 when the flow reaches normal completion
\* and nonzero when the flow ends through Stop() (the stop at the checkout on
\* "Your branch is ahead of", the stop at the merge on "Already up to date").
C11_StopExitsNonzero ==
    /\ pc = "completed" => exitCode = 0
    /\ pc = Stop => exitCode # 0

\* The failure signals errorHandler looks for: the field searched, the
\* fragment searched for, the remedy.
C12_Table ==
    {<<"message", P_noRemote, "noRemote">>,
     <<"stderr", P_ambiguous, "pathspecReset">>,
     <<"message", P_noMerge, "noMerge">>,
     <<"message", P_notRepo, "notRepo">>,
     <<"message", P_check, "check">>,
     <<"stdout", P_conflict, "hasConflict">>,
     <<"stderr", P_needResolve, "hasConflict">>,
     <<"stderr", P_ahead, "ahead">>,
     <<"stderr", P_overwritten, "file">>,
     <<"stderr", P_pathspec, "pathspec">>,
     <<"stderr", P_alreadyExists, "alreadyAdded">>}

\* the remedies of the signals of table whose fragment is in its field
C12_Remedies(table, error) == {r[3] : r \in {r \in table : match(error[r[1]], r[2])}}

C12_Emitted(table) ==
    \A k \in 1..Len(handled) :
        LET remedies == C12_Remedies(table, handled[k]) IN
        /\ remedies \subseteq range(logged)
        /\ remedies = {} => range(logged) \cap {r[3] : r \in table} = {}

\* C12 as stated: for every failure handed to errorHandler and every signal
\* of the table, BranchAhead being looked for in stderr and in stdout, the
\* signal's remedy has been logged if its field contains its fragment,
\* whatever else the failure contains; no remedy has been logged for a
\* failure containing none of the fragments.
C12_AheadInEitherStream == C12_Emitted(C12_Table \cup {<<"stdout", P_ahead, "ahead">>})

\* C13: once errorHandler has run, no step calls it again, issues a command
\* or logs a remedy: the commands it started (at most four: git status -s
\* twice, git branch, git remote -v) only settle, and all that is logged is
\* the output of those that succeeded.
C13_SecondariesNeverHandled ==
    [][/\ handled' # handled => Len(issued') <= Len(issued) + 4
       /\ handled # <<>> =>
            /\ handled' = handled
            /\ issued' = issued
            /\ \E n \in 0..1 : \E out \in {"conflicting files", "output"} :
                    logged' = logged \o when(n = 1, <<out>>)]_vars

C13_Witness ==
    /\ Len(handled) = 1
    /\ Cardinality({i \in 1..Len(issued) : issued[i] = statusShortCommand}) = 2
    /\ inFlight = {}
    /\ unhandled # {}
    /\ "conflicting files" \in range(logged)

\* C14: in the sync flow, once git --version has succeeded without "git
\* version" in its stdout, the advisory has been logged, the checkout command
\* has been issued next, and the failure handler has not been called for the
\* version check.
C14_BannerDoesNotBlock ==
    flow = "sync" =>
        \A i \in 1..Len(issued) :
            (settled(i, verifyCommand, "ok") /\ ~match(results[i].stdout, P_gitVersion))
            => /\ "gitNotInstalled" \in range(logged)
               /\ Len(issued) > i
               /\ issued[i + 1] = checkoutCommand(opts)
               /\ \A k \in 1..Len(handled) : handled[k] # ExecError(results[i])

C14_Witness ==
    /\ flow = "sync"
    /\ Len(issued) >= 2
    /\ settled(1, verifyCommand, "ok")
    /\ results[1].stdout = {}
    /\ issued[2] = checkoutCommand(opts)
    /\ "gitNotInstalled" \in range(logged)

\* The steps of the sync flow, in the order of the source.
C15_Sequence ==
    <<verifyCommand, checkoutCommand(opts), fetchCommand(opts), mergeCommand(opts),
      pushCommand, logCommand>>

C15_inSequence(command) == command \in SyncCommands

\* C15: in the sync flow, the commands of the sequence that have been issued
\* are, in the order of their issue, an initial part of version check,
\* checkout, fetch, merge, push, log: each is issued at most once, none out
\* of order, and none again after it failed.
C15_StepsOnlyForward ==
    flow = "sync" =>
        LET steps == SelectSeq(issued, C15_inSequence) IN
        /\ Len(steps) <= Len(C15_Sequence)
        /\ steps = SubSeq(C15_Sequence, 1, Len(steps))

C15_Witness ==
    /\ flow = "sync"
    /\ Len(issued) >= 6
    /\ settled(5, pushCommand, "failed")
    /\ issued[6] \notin SyncCommands

\* The commands of the reset flow.
C16_Commands ==
    {verifyMergeCommand, abortMergeCommand, checkoutCommand(opts),
     resetFetchCommand(opts), resetCommand(opts), forcePushCommand}

C16_inSequence(command) == command \in C16_Commands

\* C16: in the reset flow, the commands of the flow that have been issued
\* are, in the order of their issue, an initial part of status, abort-merge
\* (or not), checkout, fetch, hard reset, force push; and each of them was
\* issued only after every one before it had succeeded: the checkout after
\* the abort, the force push after the hard reset, none after a failure.
C16_ResetOrder ==
    flow = "reset" =>
        LET steps == SelectSeq(issued, C16_inSequence) IN
        /\ \E abort \in BOOLEAN :
            LET sequence == <<verifyMergeCommand>> \o when(abort, <<abortMergeCommand>>)
                            \o <<checkoutCommand(opts), resetFetchCommand(opts),
                                 resetCommand(opts), forcePushCommand>>
            IN  /\ Len(steps) <= Len(sequence)
                /\ steps = SubSeq(sequence, 1, Len(steps))
        /\ \A i, j \in 1..Len(issued) :
                (i < j /\ issued[i] \in C16_Commands /\ issued[j] \in C16_Commands)
                => results[i].state = "ok"

C16_Witness ==
    /\ flow = "reset"
    /\ pc = "completed"
    /\ Len(issued) = 6
    /\ issued[2] = abortMergeCommand
    /\ settled(6, forcePushCommand, "ok")

\* C17: when logOnly is set and add, remove and reset are not, the first
\* command issued is the log command, every other command issued is one
\* errorHandler started after the log command failed, and the update check
\* has not run: the flow never waits for the registry, nothing the update
\* check logs has been logged and no error of the update check was caught.
C17_LogOnlyBypassesSync ==
    (flow = "logOnly" /\ pc # "init") =>
        /\ Len(issued) >= 1
        /\ issued[1] = logCommand
        /\ \A i \in 2..Len(issued) :
            /\ issued[i] \in {statusShortCommand, branchCommand, listCommand}
            /\ results[1].state = "failed"
        /\ pc \notin {"getVersion", "verify", "checkout", "fetch", "merge", "push"}
        /\ "Cache Corrupted. Overwriting cache." \notin range(logged)
        /\ \A k \in 1..Len(handled) : handled[k].kind = "exec"

C17_Witness ==
    /\ flow = "logOnly"
    /\ opts.log
    /\ pc = "completed"
    /\ issued = <<logCommand>>
    /\ logged = <<"commits">>

\* C18: in the sync flow, the log command has been issued if and only if
\* opts.log is set, the push has succeeded and the final success message has
\* been logged; and when it has been issued, no Stop() has ended the run and
\* every command issued before it has succeeded.
C18_LogIffCompleted ==
    flow = "sync" =>
        /\ logCommand \in range(issued)
            <=> /\ opts.log
                /\ \E i \in 1..Len(issued) : settled(i, pushCommand, "ok")
                /\ "synced" \in range(logged)
        /\ \A j \in 1..Len(issued) :
            issued[j] = logCommand
            => /\ pc # Stop
               /\ \A i \in 1..(j - 1) : results[i].state = "ok"

C18_Witness ==
    /\ flow = "sync"
    /\ Len(issued) >= 6
    /\ settled(5, pushCommand, "ok")
    /\ settled(6, logCommand, "failed")
    /\ "synced" \in range(logged)

\* C19: in the sync flow, once the merge has succeeded without "Already up
\* to date" in its stdout, the push has been issued next, whether or not the
\* stdout contains "Updating"; with "Updating" the progress message has been
\* logged, without it it has not.
C19_PushNotGatedByUpdating ==
    flow = "sync" =>
        \A i \in 1..Len(issued) :
            (settled(i, mergeCommand(opts), "ok") /\ ~match(results[i].stdout, P_upToDate))
            => /\ Len(issued) > i
               /\ issued[i + 1] = pushCommand
               /\ "merged" \in range(logged) <=> match(results[i].stdout, P_updating)

C19_Witness ==
    /\ flow = "sync"
    /\ Len(issued) >= 5
    /\ settled(4, mergeCommand(opts), "ok")
    /\ results[4].stdout = {}
    /\ issued[5] = pushCommand
    /\ "merged" \notin range(logged)

\* C20: in the sync flow, no command has been issued while the update check
\* has not run or is waiting for the registry; and once the update check has
\* failed (the error caught is not a command's: the registry request was
\* rejected, or reading the cache or the package file or writing the cache
\* threw), no command of the sync sequence has been issued.
C20_UpdateCheckFirst ==
    flow = "sync" =>
        /\ pc \in {"init", "getVersion"} => issued = <<>>
        /\ (\E k \in 1..Len(handled) : handled[k].kind # "exec")
            => range(issued) \cap SyncCommands = {}

C20_Witness ==
    /\ flow = "sync"
    /\ handled = <<StringRejection>>
    /\ pc = "rejected"
    /\ issued = <<>>

====
